---------------------------- MODULE Spec2Model ----------------------------
(***************************************************************************)
(* A model of mini-redis' protocol layer: the frame codec (src/frame.rs),  *)
(* the command model and its dispatch (src/cmd.rs, src/cmd/*.rs) and the   *)
(* subscription engine with cooperative shutdown.                          *)
(*                                                                         *)
(* Byte buffers are sequences of byte values; a cursor position is the     *)
(* 0-based offset of Rust's Cursor, so the byte under the cursor is        *)
(* buf[pos + 1].                                                           *)
(***************************************************************************)
EXTENDS Integers, Sequences, FiniteSets, TLC

VARIABLES
    inp,        \* codec: the bytes a peer sends: [kind, frame, wire, start],
                \*        and whether the build checks arithmetic overflow
    got,        \* codec: how many bytes of inp.wire the read buffer holds
    chk,        \* codec: outcome of the last Frame::check on the buffer
    prs,        \* codec: outcome of the last Frame::parse on the buffer
    ln,         \* codec: outcome of the last get_line on the buffer, and where
                \*        the cursor stood
    db,         \* server: key |-> [v, ttl], the entries of the database
    chan,       \* server: channel name |-> the messages broadcast on it so far
    mode,       \* server: per connection: none, cmd (ordinary loop), sub
                \*         (inside Subscribe::apply), closed
    subs,       \* server: per connection: the StreamMap entries, in order
    pend,       \* server: per connection: channels of a SUBSCRIBE not yet registered
    out,        \* server: per connection: the frames written to its socket
    last,       \* server: per connection: the last frame read, the command built
                \*         from it, what handling it returned and in which loop
    nreq,       \* server: the number of requests read so far
    shutdown,   \* server: the shutdown signal has been fired
    registered, \* server: the connections the completion tracker holds
    server      \* server: running, draining (waiting for completion), done

codecVars == <<inp, got, chk, prs, ln>>
serverVars ==
    <<db, chan, mode, subs, pend, out, last, nreq, shutdown, registered, server>>
vars ==
    <<inp, got, chk, prs, ln,
      db, chan, mode, subs, pend, out, last, nreq, shutdown, registered, server>>

---------------------------------------------------------------------------
(* Bytes the codec tells apart.                                            *)
PLUS == 43
MINUS == 45
COLON == 58
DOLLAR == 36
STAR == 42
CR == 13
LF == 10

(* Bounds of the explored inputs. *)
MaxInt == 12
MaxPad == 1
MaxArr == 2
MaxArgs == 2
MaxReq == 3
MaxLagReq == 5
Cap == 1

---------------------------------------------------------------------------
(* Frame values (enum Frame).                                              *)
Simple(s) == [t |-> "Simple", s |-> s]
ErrorF(s) == [t |-> "Error", s |-> s]
Int64(n) == [t |-> "Int", n |-> n]
Bulk(b) == [t |-> "Bulk", b |-> b]
Null == [t |-> "Null"]
Array(v) == [t |-> "Array", v |-> v]
NoFrame == [t |-> "None"]

(* Outcomes of the cursor helpers: r is Ok, Incomplete (Error::InComplete), *)
(* Error (Error::Other) or Panic; pos is where the cursor stands after.     *)
Res(r, pos) == [r |-> r, pos |-> pos]
ValRes(r, v, pos) == [r |-> r, v |-> v, pos |-> pos]
FrameRes(r, f, pos) == [r |-> r, f |-> f, pos |-> pos]
NoRes == [r |-> "None", pos |-> 0]
NoFrameRes == [r |-> "None", f |-> NoFrame, pos |-> 0]
LineRes(l, at) == [r |-> l.r, v |-> l.v, pos |-> l.pos, at |-> at]
NoLineRes == [r |-> "None", v |-> <<>>, pos |-> 0, at |-> 0]

(* usize::MAX and u64::MAX of a 64-bit platform, scaled down to 4 bits.    *)
USIZE_MAX == 15
U64_MAX == USIZE_MAX

(* The build: debug_assertions (overflow checks) on or off. *)
overflow_checks == inp.debug

(* a + b on usize: past usize::MAX it panics in a build with overflow      *)
(* checks and wraps around in a build without.                             *)
add_usize(a, b) ==
    IF a + b <= USIZE_MAX THEN [r |-> "Ok", v |-> a + b]
    ELSE IF overflow_checks THEN [r |-> "Panic", v |-> 0]
    ELSE [r |-> "Ok", v |-> (a + b) % (USIZE_MAX + 1)]

(* u64 -> usize by try_into()?: an error when the value does not fit. *)
try_into_usize(n) == IF n <= USIZE_MAX THEN "Ok" ELSE "Error"

remaining(buf, pos) == Len(buf) - pos

peek_u8(buf, pos) ==
    IF remaining(buf, pos) <= 0
    THEN ValRes("Incomplete", 0, pos)
    ELSE ValRes("Ok", buf[pos + 1], pos)

get_u8(buf, pos) ==
    IF remaining(buf, pos) <= 0
    THEN ValRes("Incomplete", 0, pos)
    ELSE ValRes("Ok", buf[pos + 1], pos + 1)

skip(buf, pos, n) ==
    IF remaining(buf, pos) < n
    THEN Res("Incomplete", pos)
    ELSE Res("Ok", pos + n)

(* A get_line that scans for the first CRLF at or after the cursor. *)
get_line_to_crlf(buf, pos) ==
    LET at == {i \in pos..(Len(buf) - 2) : buf[i + 1] = CR /\ buf[i + 2] = LF}
        i == CHOOSE j \in at : \A k \in at : j <= k
    IN  IF at = {} THEN ValRes("Incomplete", <<>>, pos)
        ELSE ValRes("Ok", SubSeq(buf, pos + 1, i), i + 2)

(* get_line: end = len - 1 (which underflows on an empty buffer); the loop  *)
(* body returns on its first iteration, i = start: the slice start..i is    *)
(* empty, and the cursor moves only when a CRLF stands exactly at start.    *)
(* src[i + 1] is read only after src[i] == '\r' (short-circuit &&) and      *)
(* panics when i is the last index.                                         *)
get_line(buf, pos) ==
    LET start == pos
        len == Len(buf)
        end == len - 1
        i == start
    IN  IF len = 0 THEN ValRes("Panic", <<>>, pos)
        ELSE IF start > end THEN ValRes("Incomplete", <<>>, pos)
        ELSE IF buf[i + 1] = CR
             THEN IF i + 1 > end THEN ValRes("Panic", <<>>, pos)
                  ELSE IF buf[i + 2] = LF
                       THEN ValRes("Ok", SubSeq(buf, start + 1, i), i + 2)
                       ELSE ValRes("Ok", SubSeq(buf, start + 1, i), pos)
             ELSE ValRes("Ok", SubSeq(buf, start + 1, i), pos)

(* atoi::<u64>: the value of the leading ASCII digits, None (-1) when the   *)
(* text does not start with a digit or the value does not fit u64.          *)
IsDigit(b) == b >= 48 /\ b <= 57

RECURSIVE AtoiFrom(_, _, _)
AtoiFrom(line, i, acc) ==
    IF i > Len(line) \/ ~IsDigit(line[i]) THEN acc
    ELSE IF acc * 10 + (line[i] - 48) > U64_MAX THEN -1
    ELSE AtoiFrom(line, i + 1, acc * 10 + (line[i] - 48))

atoi(line) ==
    IF Len(line) = 0 \/ ~IsDigit(line[1]) THEN -1 ELSE AtoiFrom(line, 1, 0)

get_decimal(buf, pos) ==
    LET l == get_line(buf, pos)
    IN  IF l.r # "Ok" THEN ValRes(l.r, 0, l.pos)
        ELSE IF atoi(l.v) < 0 THEN ValRes("Error", 0, l.pos)
        ELSE ValRes("Ok", atoi(l.v), l.pos)

(* from_utf8, on the bytes the model draws from: ASCII is valid, a byte     *)
(* with the high bit set never starts a valid sequence on its own here.     *)
from_utf8_ok(line) == \A i \in 1..Len(line) : line[i] < 128

(* The arm `actual => Err("protocol error; invalid frame type byte")`. *)
invalid_type_byte_as_incomplete(actual, pos) == Res("Incomplete", pos)
invalid_type_byte(actual, pos) == Res("Error", pos)

(* The bulk arm of Frame::check after get_decimal: try_into()?, then      *)
(* skip(src, len + 2).                                                      *)
check_bulk(buf, pos, len) ==
    IF try_into_usize(len) # "Ok" THEN Res("Error", pos)
    ELSE IF add_usize(len, 2).r # "Ok" THEN Res("Panic", pos)
    ELSE skip(buf, pos, add_usize(len, 2).v)

(* The bulk arm of Frame::parse after get_decimal: try_into()?, n = len +  *)
(* 2, Incomplete when fewer than n bytes remain, the slice ..len of the    *)
(* chunk (a panic when len is past its end), then skip(src, n).            *)
parse_bulk(buf, pos, len) ==
    IF try_into_usize(len) # "Ok" THEN FrameRes("Error", NoFrame, pos)
    ELSE IF add_usize(len, 2).r # "Ok" THEN FrameRes("Panic", NoFrame, pos)
    ELSE IF remaining(buf, pos) < add_usize(len, 2).v
         THEN FrameRes("Incomplete", NoFrame, pos)
    ELSE IF len > remaining(buf, pos) THEN FrameRes("Panic", NoFrame, pos)
    ELSE FrameRes("Ok", Bulk(SubSeq(buf, pos + 1, pos + len)),
                  skip(buf, pos, add_usize(len, 2).v).pos)

RECURSIVE check(_, _), check_n(_, _, _)
check(buf, pos) ==
    LET b == get_u8(buf, pos)
    IN  IF b.r # "Ok" THEN Res(b.r, b.pos)
        ELSE IF b.v = PLUS \/ b.v = MINUS
             THEN LET l == get_line(buf, b.pos) IN Res(l.r, l.pos)
        ELSE IF b.v = COLON
             THEN LET d == get_decimal(buf, b.pos) IN Res(d.r, d.pos)
        ELSE IF b.v = DOLLAR
             THEN LET p == peek_u8(buf, b.pos)
                  IN  IF p.r # "Ok" THEN Res(p.r, p.pos)
                      ELSE IF p.v = MINUS THEN skip(buf, b.pos, 4)
                      ELSE LET d == get_decimal(buf, b.pos)
                           IN  IF d.r # "Ok" THEN Res(d.r, d.pos)
                               ELSE check_bulk(buf, d.pos, d.v)
        ELSE IF b.v = STAR
             THEN LET d == get_decimal(buf, b.pos)
                  IN  IF d.r # "Ok" THEN Res(d.r, d.pos)
                      ELSE check_n(buf, d.pos, d.v)
        ELSE invalid_type_byte(b.v, b.pos)

check_n(buf, pos, n) ==
    IF n = 0 THEN Res("Ok", pos)
    ELSE LET c == check(buf, pos)
         IN  IF c.r # "Ok" THEN c ELSE check_n(buf, c.pos, n - 1)

RECURSIVE parse(_, _), parse_n(_, _, _, _)
parse(buf, pos) ==
    LET b == get_u8(buf, pos)
    IN  IF b.r # "Ok" THEN FrameRes(b.r, NoFrame, b.pos)
        ELSE IF b.v = PLUS \/ b.v = MINUS
             THEN LET l == get_line(buf, b.pos)
                  IN  IF l.r # "Ok" THEN FrameRes(l.r, NoFrame, l.pos)
                      ELSE IF ~from_utf8_ok(l.v)
                           THEN FrameRes("Error", NoFrame, l.pos)
                      ELSE FrameRes("Ok",
                               IF b.v = PLUS THEN Simple(l.v) ELSE ErrorF(l.v),
                               l.pos)
        ELSE IF b.v = COLON
             THEN LET d == get_decimal(buf, b.pos)
                  IN  IF d.r # "Ok" THEN FrameRes(d.r, NoFrame, d.pos)
                      ELSE FrameRes("Ok", Int64(d.v), d.pos)
        ELSE IF b.v = DOLLAR
             THEN LET p == peek_u8(buf, b.pos)
                  IN  IF p.r # "Ok" THEN FrameRes(p.r, NoFrame, p.pos)
                      ELSE IF p.v = MINUS
                           THEN LET l == get_line(buf, b.pos)
                                IN  IF l.r # "Ok"
                                    THEN FrameRes(l.r, NoFrame, l.pos)
                                    ELSE IF l.v # <<MINUS, 49>>
                                         THEN FrameRes("Error", NoFrame, l.pos)
                                         ELSE FrameRes("Ok", Null, l.pos)
                      ELSE LET d == get_decimal(buf, b.pos)
                           IN  IF d.r # "Ok" THEN FrameRes(d.r, NoFrame, d.pos)
                               ELSE parse_bulk(buf, d.pos, d.v)
        ELSE IF b.v = STAR
             THEN LET d == get_decimal(buf, b.pos)
                  IN  IF d.r # "Ok" THEN FrameRes(d.r, NoFrame, d.pos)
                      ELSE IF try_into_usize(d.v) # "Ok"
                           THEN FrameRes("Error", NoFrame, d.pos)
                      ELSE parse_n(buf, d.pos, d.v, <<>>)
        ELSE FrameRes("Panic", NoFrame, b.pos)

parse_n(buf, pos, n, out_vec) ==
    IF n = 0 THEN FrameRes("Ok", Array(out_vec), pos)
    ELSE LET f == parse(buf, pos)
         IN  IF f.r # "Ok" THEN f
             ELSE parse_n(buf, f.pos, n - 1, Append(out_vec, f.f))

---------------------------------------------------------------------------
(* The wire table: the bytes a peer writes for a frame.                    *)
RECURSIVE Decimal(_)
Decimal(n) ==
    IF n < 10 THEN <<48 + n>> ELSE Append(Decimal(n \div 10), 48 + (n % 10))

CRLF == <<CR, LF>>

RECURSIVE Encode(_), EncodeAll(_)
Encode(f) ==
    CASE f.t = "Simple" -> <<PLUS>> \o f.s \o CRLF
      [] f.t = "Error" -> <<MINUS>> \o f.s \o CRLF
      [] f.t = "Int" -> <<COLON>> \o Decimal(f.n) \o CRLF
      [] f.t = "Bulk" -> <<DOLLAR>> \o Decimal(Len(f.b)) \o CRLF \o f.b \o CRLF
      [] f.t = "Null" -> <<DOLLAR, MINUS, 49>> \o CRLF
      [] f.t = "Array" -> <<STAR>> \o Decimal(Len(f.v)) \o CRLF \o EncodeAll(f.v)

EncodeAll(v) ==
    IF v = <<>> THEN <<>> ELSE Encode(Head(v)) \o EncodeAll(Tail(v))

(* The frames and buffers explored. *)
Texts == {<<>>, <<79, 75>>}
Payloads == {<<>>, <<97>>, CRLF}
Leaves ==
    {Simple(s) : s \in Texts} \cup {ErrorF(s) : s \in Texts}
        \cup {Int64(n) : n \in {0, MaxInt}} \cup {Bulk(b) : b \in Payloads}
        \cup {Null}
Elems == {Simple(<<>>), Simple(<<79, 75>>), Int64(0), Bulk(<<97>>), Null}
SeqsUpTo(S, n) == UNION {[1..k -> S] : k \in 0..n}
FlatArrays == {Array(v) : v \in SeqsUpTo(Elems, MaxArr)}
NestedArrays ==
    {Array(<<Array(v)>>) : v \in SeqsUpTo(Elems, 1)}
        \cup {Array(<<e, Array(<<e>>)>>) : e \in Elems}
Frames == Leaves \cup FlatArrays \cup NestedArrays

Pads == {[i \in 1..k |-> LF] : k \in 0..MaxPad}
Tails == {<<>>, <<PLUS>>, CRLF}
BadBytes == {33, 97, 48, CR}

(* kind "valid": pad, an encoded frame, a tail. need is the offset just    *)
(* past the frame.                                                         *)
ValidInputs ==
    {[kind |-> "valid", frame |-> f, start |-> Len(p),
      wire |-> p \o Encode(f) \o t, need |-> Len(p) + Len(Encode(f)),
      debug |-> FALSE] :
        f \in Frames, p \in Pads, t \in Tails}

(* kind "badtop": a byte that is no type byte stands at the cursor; kind   *)
(* "badnested": it stands where an element of an array starts. need is the *)
(* offset just past that byte.                                             *)
BadTopInputs ==
    {[kind |-> "badtop", frame |-> NoFrame, start |-> Len(p),
      wire |-> p \o <<b>> \o t, need |-> Len(p) + 1, debug |-> FALSE] :
        b \in BadBytes, p \in Pads, t \in Tails}

BadNestedInputs ==
    {[kind |-> "badnested", frame |-> NoFrame, start |-> Len(p),
      wire |-> p \o <<STAR>> \o Decimal(Len(v) + 1 + k) \o CRLF
                 \o EncodeAll(v) \o <<b>> \o t,
      need |-> Len(p) + 1 + Len(Decimal(Len(v) + 1 + k)) + 2
                 + Len(EncodeAll(v)) + 1,
      debug |-> FALSE] :
        b \in BadBytes, p \in Pads, t \in Tails, k \in 0..1,
        v \in SeqsUpTo(Elems, 1)}

(* kind "overflow": a bulk frame whose declared length does not fit, or   *)
(* whose length + 2 does not fit, followed by bytes a short skip would     *)
(* find; in a build with overflow checks and in one without.               *)
OverflowInputs ==
    {[kind |-> "overflow", frame |-> NoFrame, start |-> Len(p),
      wire |-> p \o <<DOLLAR>> \o Decimal(n) \o CRLF \o <<97>> \o CRLF \o t,
      need |-> Len(p) + 1 + Len(Decimal(n)) + 2, debug |-> d] :
        n \in (USIZE_MAX - 1)..(USIZE_MAX + 1), p \in Pads, t \in Tails,
        d \in BOOLEAN}

Inputs ==
    ValidInputs \cup BadTopInputs \cup BadNestedInputs \cup OverflowInputs

buffer == SubSeq(inp.wire, 1, got)

---------------------------------------------------------------------------
(* Text in the command layer is the byte sequence of the Rust String.      *)
S_get == <<103, 101, 116>>
S_set == <<115, 101, 116>>
S_ping == <<112, 105, 110, 103>>
S_publish == <<112, 117, 98, 108, 105, 115, 104>>
S_subscribe == <<115, 117, 98, 115, 99, 114, 105, 98, 101>>
S_unsubscribe == <<117, 110>> \o S_subscribe
S_message == <<109, 101, 115, 115, 97, 103, 101>>
S_err_unknown ==
    <<101, 114, 114, 32, 117, 110, 107, 110, 111, 119, 110, 32,
      99, 111, 109, 109, 97, 110, 100, 32, 39>>
S_quote == <<39>>
S_OK == <<79, 75>>
S_PONG == <<80, 79, 78, 71>>
S_EX == <<69, 88>>
S_PX == <<80, 88>>
S_frob == <<102, 114, 111, 98>>
S_k == <<107>>
S_v == <<118>>
S_a == <<97>>
S_b == <<98>>
S_m == <<109>>

to_lowercase_as_is(s) == s
(* str::to_lowercase / to_uppercase on the ASCII text the model draws. *)
to_lowercase(s) ==
    [i \in 1..Len(s) |-> IF s[i] >= 65 /\ s[i] <= 90 THEN s[i] + 32 ELSE s[i]]
to_uppercase(s) ==
    [i \in 1..Len(s) |-> IF s[i] >= 97 /\ s[i] <= 122 THEN s[i] - 32 ELSE s[i]]
Capitalized(s) ==
    [i \in 1..Len(s) |-> IF i = 1 THEN to_uppercase(s)[1] ELSE s[i]]

(* Parse: a cursor over the elements of an array frame. r is Ok,           *)
(* EndOfStream (ParseError::EndOfStream) or Err (ParseError::Other).       *)
PRes(r, v, parts) == [r |-> r, v |-> v, parts |-> parts]

Parse_new(frame) ==
    IF frame.t = "Array" THEN PRes("Ok", <<>>, frame.v)
    ELSE PRes("Err", <<>>, <<>>)

next_string(parts) ==
    IF parts = <<>> THEN PRes("EndOfStream", <<>>, parts)
    ELSE LET f == Head(parts)
         IN  IF f.t = "Simple" THEN PRes("Ok", f.s, Tail(parts))
             ELSE IF f.t = "Bulk" /\ from_utf8_ok(f.b)
                  THEN PRes("Ok", f.b, Tail(parts))
             ELSE PRes("Err", <<>>, Tail(parts))

next_bytes(parts) ==
    IF parts = <<>> THEN PRes("EndOfStream", <<>>, parts)
    ELSE LET f == Head(parts)
         IN  IF f.t = "Simple" THEN PRes("Ok", f.s, Tail(parts))
             ELSE IF f.t = "Bulk" THEN PRes("Ok", f.b, Tail(parts))
             ELSE PRes("Err", <<>>, Tail(parts))

next_int(parts) ==
    IF parts = <<>> THEN PRes("EndOfStream", 0, parts)
    ELSE LET f == Head(parts)
         IN  IF f.t = "Int" THEN PRes("Ok", f.n, Tail(parts))
             ELSE IF f.t = "Simple" /\ atoi(f.s) >= 0
                  THEN PRes("Ok", atoi(f.s), Tail(parts))
             ELSE IF f.t = "Bulk" /\ atoi(f.b) >= 0
                  THEN PRes("Ok", atoi(f.b), Tail(parts))
             ELSE PRes("Err", 0, Tail(parts))

finish(parts) == IF parts = <<>> THEN "Ok" ELSE "Err"

(* Command values (enum Command) and the outcome of building one: r is Ok  *)
(* or Err, parts is what the parser still holds.                           *)
Get(key) == [c |-> "Get", key |-> key]
Set(key, value, expire) ==
    [c |-> "Set", key |-> key, value |-> value, expire |-> expire]
Publish(channel, message) ==
    [c |-> "Publish", channel |-> channel, message |-> message]
Subscribe(channels) == [c |-> "Subscribe", channels |-> channels]
Unsubscribe(channels) == [c |-> "Unsubscribe", channels |-> channels]
Ping(msg) == [c |-> "Ping", msg |-> msg]
Unknown(cmd_name) == [c |-> "Unknown", cmd_name |-> cmd_name]
NoCmd == [c |-> "None"]
CRes(r, cmd, parts) == [r |-> r, cmd |-> cmd, parts |-> parts]
NoExpire == [unit |-> "none", n |-> 0]
NoMsg == [some |-> FALSE, v |-> <<>>]

Get_parse_frames(parts) ==
    LET key == next_string(parts)
    IN  IF key.r # "Ok" THEN CRes("Err", NoCmd, key.parts)
        ELSE CRes("Ok", Get(key.v), key.parts)

Publish_parse_frames(parts) ==
    LET channel == next_string(parts)
        message == next_bytes(channel.parts)
    IN  IF channel.r # "Ok" THEN CRes("Err", NoCmd, channel.parts)
        ELSE IF message.r # "Ok" THEN CRes("Err", NoCmd, message.parts)
        ELSE CRes("Ok", Publish(channel.v, message.v), message.parts)

Set_parse_frames(parts) ==
    LET key == next_string(parts)
        value == next_bytes(key.parts)
        opt == next_string(value.parts)
        n == next_int(opt.parts)
    IN  IF key.r # "Ok" THEN CRes("Err", NoCmd, key.parts)
        ELSE IF value.r # "Ok" THEN CRes("Err", NoCmd, value.parts)
        ELSE IF opt.r = "EndOfStream"
             THEN CRes("Ok", Set(key.v, value.v, NoExpire), opt.parts)
        ELSE IF opt.r # "Ok" THEN CRes("Err", NoCmd, opt.parts)
        ELSE IF to_uppercase(opt.v) \notin {S_EX, S_PX}
             THEN CRes("Err", NoCmd, opt.parts)
        ELSE IF n.r # "Ok" THEN CRes("Err", NoCmd, n.parts)
        ELSE CRes("Ok",
                  Set(key.v, value.v,
                      [unit |-> IF to_uppercase(opt.v) = S_EX THEN "s" ELSE "ms",
                       n |-> n.v]),
                  n.parts)

Ping_parse_frames(parts) ==
    LET msg == next_bytes(parts)
    IN  IF msg.r = "Ok"
        THEN CRes("Ok", Ping([some |-> TRUE, v |-> msg.v]), msg.parts)
        ELSE IF msg.r = "EndOfStream" THEN CRes("Ok", Ping(NoMsg), msg.parts)
        ELSE CRes("Err", NoCmd, msg.parts)

(* A loop that ends the list at the first element that is no string. *)
RECURSIVE more_channels_until_error(_, _)
more_channels_until_error(parts, channels) ==
    LET s == next_string(parts)
    IN  IF s.r = "Ok"
        THEN more_channels_until_error(s.parts, Append(channels, s.v))
        ELSE PRes("Ok", channels, s.parts)

(* The loop of Subscribe::parse_frames after its first next_string()?:     *)
(* strings are pushed until EndOfStream; any other error is returned.      *)
RECURSIVE more_channels(_, _)
more_channels(parts, channels) ==
    LET s == next_string(parts)
    IN  IF s.r = "Ok" THEN more_channels(s.parts, Append(channels, s.v))
        ELSE IF s.r = "EndOfStream" THEN PRes("Ok", channels, s.parts)
        ELSE PRes("Err", channels, s.parts)

Subscribe_parse_frames(parts) ==
    LET first == next_string(parts)
        rest == more_channels(first.parts, <<first.v>>)
    IN  IF first.r # "Ok" THEN CRes("Err", NoCmd, first.parts)
        ELSE IF rest.r # "Ok" THEN CRes("Err", NoCmd, rest.parts)
        ELSE CRes("Ok", Subscribe(rest.v), rest.parts)

Unsubscribe_parse_frames(parts) ==
    LET rest == more_channels(parts, <<>>)
    IN  IF rest.r # "Ok" THEN CRes("Err", NoCmd, rest.parts)
        ELSE CRes("Ok", Unsubscribe(rest.v), rest.parts)

(* The fall-through arm of from_frame returns at once, before              *)
(* parse.finish().                                                         *)
unknown_arm_finishes(command_name, parts) ==
    IF finish(parts) = "Ok" THEN CRes("Ok", Unknown(command_name), parts)
    ELSE CRes("Err", NoCmd, parts)
unknown_arm(command_name, parts) == CRes("Ok", Unknown(command_name), parts)

(* The arm "unsubscribe" of from_frame. *)
unsubscribe_arm_rejects(parts) == CRes("Err", NoCmd, parts)
unsubscribe_arm(parts) == Unsubscribe_parse_frames(parts)

(* The match on the lower-cased name. *)
match_command(command_name, parts) ==
    CASE command_name = S_get -> Get_parse_frames(parts)
      [] command_name = S_publish -> Publish_parse_frames(parts)
      [] command_name = S_set -> Set_parse_frames(parts)
      [] command_name = S_subscribe -> Subscribe_parse_frames(parts)
      [] command_name = S_unsubscribe -> unsubscribe_arm(parts)
      [] command_name = S_ping -> Ping_parse_frames(parts)
      [] OTHER -> unknown_arm(command_name, parts)

finish_command_without_finish(command) == command
(* After the match: an error of the arm is returned, the `_` arm has       *)
(* returned already, the other arms go through parse.finish()?.            *)
finish_command(command) ==
    IF command.r # "Ok" THEN command
    ELSE IF command.cmd.c = "Unknown" THEN command
    ELSE IF finish(command.parts) # "Ok"
         THEN CRes("Err", NoCmd, command.parts)
    ELSE command

(* From parse.next_string()? on: name is the outcome of that call. *)
from_name(name) ==
    IF name.r # "Ok" THEN CRes("Err", NoCmd, name.parts)
    ELSE finish_command(match_command(to_lowercase(name.v), name.parts))

from_frame(frame) ==
    IF Parse_new(frame).r # "Ok" THEN CRes("Err", NoCmd, <<>>)
    ELSE from_name(next_string(Parse_new(frame).parts))

---------------------------------------------------------------------------
(* The database collaborator: entries, and broadcast channels kept as the  *)
(* log of what was sent; a receiver is a position in that log.             *)
Conns == {"c1", "c2", "c3"}

db_get(key) ==
    IF key \in DOMAIN db THEN [some |-> TRUE, v |-> db[key].v] ELSE NoMsg

db_set(key, value, expire) ==
    (key :> [v |-> value, ttl |-> expire.unit # "none"]) @@ db

Without(f, k) == [x \in DOMAIN f \ {k} |-> f[x]]

HasKey(entries, k) == \E i \in 1..Len(entries) : entries[i].name = k

num_receivers(name) == Cardinality({c \in Conns : HasKey(subs[c], name)})

(* Db::subscribe: the channel is created on first use; the receiver sees   *)
(* what is sent from now on.                                               *)
db_subscribe_chan(name) ==
    IF name \in DOMAIN chan THEN chan ELSE (name :> <<>>) @@ chan

(* A receiver: next is how far it has read in the log of its channel, base *)
(* where it started, skipped how many messages lag made it miss, seen the  *)
(* length of the log when it last found that it lagged.                    *)
NewRx(name, pos) ==
    [name |-> name, next |-> pos, base |-> pos, skipped |-> 0, seen |-> pos]

(* Db::publish: the number of receivers, 0 when the channel does not exist *)
(* or nobody listens (the message is then not kept).                       *)
db_publish_count(name) ==
    IF name \in DOMAIN chan THEN num_receivers(name) ELSE 0

db_publish_chan(name, msg) ==
    IF db_publish_count(name) > 0
    THEN [chan EXCEPT ![name] = Append(@, msg)]
    ELSE chan

(* StreamMap: a vector of (key, stream) entries; insert removes an entry   *)
(* of the same key first, remove is a swap_remove.                         *)
index_of(entries, k) ==
    IF HasKey(entries, k)
    THEN CHOOSE i \in 1..Len(entries) : entries[i].name = k
    ELSE 0

swap_remove(entries, i) ==
    [j \in 1..(Len(entries) - 1) |->
        IF j = i THEN entries[Len(entries)] ELSE entries[j]]

StreamMap_remove(entries, k) ==
    IF HasKey(entries, k) THEN swap_remove(entries, index_of(entries, k))
    ELSE entries

StreamMap_insert(entries, k, stream) ==
    Append(StreamMap_remove(entries, k), stream)

keys(entries) == [i \in 1..Len(entries) |-> entries[i].name]

---------------------------------------------------------------------------
(* Replies.                                                                *)
make_subscibe_frame_off_by_one(chan_name, num_subs) ==
    Array(<<Bulk(S_subscribe), Bulk(chan_name), Int64(num_subs + 1)>>)
make_subscibe_frame(chan_name, num_subs) ==
    Array(<<Bulk(S_subscribe), Bulk(chan_name), Int64(num_subs)>>)

make_unsubscribe_frame_off_by_one(chan_name, num_subs) ==
    Array(<<Bulk(S_unsubscribe), Bulk(chan_name), Int64(num_subs + 1)>>)
make_unsubscribe_frame(chan_name, num_subs) ==
    Array(<<Bulk(S_unsubscribe), Bulk(chan_name), Int64(num_subs)>>)

make_message_frame_without_channel(chan_name, msg) ==
    Array(<<Bulk(S_message), Bulk(msg)>>)
make_message_frame(chan_name, msg) ==
    Array(<<Bulk(S_message), Bulk(chan_name), Bulk(msg)>>)

(* subscribe_to_channel: a receiver from the database, inserted into the   *)
(* subscription map under the channel name, then the ack with the size of  *)
(* the map. The result holds the map, the channels and the ack.            *)
subscribe_to_channel_keeps_old(chan_name, subscription) ==
    LET channels == db_subscribe_chan(chan_name)
        rx == NewRx(chan_name, Len(channels[chan_name]))
        inserted == Append(subscription, rx)
    IN  [subs |-> inserted, chan |-> channels,
         resp |-> make_subscibe_frame(chan_name, Len(inserted))]
subscribe_to_channel(chan_name, subscription) ==
    LET channels == db_subscribe_chan(chan_name)
        rx == NewRx(chan_name, Len(channels[chan_name]))
        inserted == StreamMap_insert(subscription, chan_name, rx)
    IN  [subs |-> inserted, chan |-> channels,
         resp |-> make_subscibe_frame(chan_name, Len(inserted))]

(* What applying a command does: what it returns, the frames it writes,    *)
(* the database entries and the channels after it.                         *)
Effect(ret, wrote, d, ch) == [ret |-> ret, wrote |-> wrote, db |-> d, chan |-> ch]

Get_apply_echoes_key(cmd) ==
    LET value == db_get(cmd.key)
        resp == IF value.some THEN Bulk(cmd.key) ELSE Null
    IN  Effect("Ok", <<resp>>, db, chan)
Get_apply_twice(cmd) ==
    LET value == db_get(cmd.key)
        resp == IF value.some THEN Bulk(value.v) ELSE Null
    IN  Effect("Ok", <<resp, resp>>, db, chan)
Get_apply(cmd) ==
    LET value == db_get(cmd.key)
        resp == IF value.some THEN Bulk(value.v) ELSE Null
    IN  Effect("Ok", <<resp>>, db, chan)

Unknown_apply(cmd) ==
    LET resp == ErrorF(S_err_unknown \o cmd.cmd_name \o S_quote)
    IN  Effect("Ok", <<resp>>, db, chan)

Set_apply(cmd) ==
    Effect("Ok", <<Simple(S_OK)>>, db_set(cmd.key, cmd.value, cmd.expire), chan)

Publish_apply(cmd) ==
    Effect("Ok", <<Int64(db_publish_count(cmd.channel))>>, db,
           db_publish_chan(cmd.channel, cmd.message))

Ping_apply(cmd) ==
    Effect("Ok",
           <<IF cmd.msg.some THEN Bulk(cmd.msg.v) ELSE Simple(S_PONG)>>,
           db, chan)

(* Command::apply. Sub: control is now inside Subscribe::apply; UnsubErr:  *)
(* Err("`Unsubscribe` is unsupported in this context").                    *)
Command_apply(cmd) ==
    CASE cmd.c = "Get" -> Get_apply(cmd)
      [] cmd.c = "Publish" -> Publish_apply(cmd)
      [] cmd.c = "Set" -> Set_apply(cmd)
      [] cmd.c = "Subscribe" -> Effect("Sub", <<>>, db, chan)
      [] cmd.c = "Ping" -> Ping_apply(cmd)
      [] cmd.c = "Unknown" -> Unknown_apply(cmd)
      [] cmd.c = "Unsubscribe" -> Effect("UnsubErr", <<>>, db, chan)

(* Inside Subscribe::apply: the handling of a command read while           *)
(* subscribed. exit: the loop ends and Subscribe::apply returns Ok.        *)
RECURSIVE unsubscribe_each(_, _, _)
unsubscribe_each(entries, names, acks) ==
    IF names = <<>> THEN [subs |-> entries, acks |-> acks]
    ELSE LET rest == StreamMap_remove(entries, Head(names))
         IN  unsubscribe_each(rest, Tail(names),
                 Append(acks, make_unsubscribe_frame(Head(names), Len(rest))))

Handled(ret, wrote, entries, pending, exit) ==
    [ret |-> ret, wrote |-> wrote, subs |-> entries, pend |-> pending,
     exit |-> exit]

handle_command(cmd, entries) ==
    CASE cmd.c = "Subscribe" -> Handled("Ok", <<>>, entries, cmd.channels, FALSE)
      [] cmd.c = "Unsubscribe" ->
            LET names == IF cmd.channels = <<>> THEN keys(entries)
                         ELSE cmd.channels
                u == unsubscribe_each(entries, names, <<>>)
            IN  Handled("Ok", u.acks, u.subs, <<>>,
                        cmd.channels = <<>> /\ Len(u.subs) = 0)
      [] cmd.c = "Ping" -> Handled("Ok", Ping_apply(cmd).wrote, entries, <<>>, FALSE)
      [] OTHER -> Handled("SubErr", <<>>, entries, <<>>, FALSE)

---------------------------------------------------------------------------
(* The server: one task per connection.                                    *)
LastRec(frame, cmd, ret, ctx) ==
    [frame |-> frame, cmd |-> cmd, ret |-> ret, ctx |-> ctx]
NoLast == LastRec(NoFrame, NoCmd, "None", "none")
Running(c) == mode[c] \in {"cmd", "sub"}

(* The suspension points at which a connection polls the shutdown signal:  *)
(* the read of the ordinary loop and the select of the subscribed loop.    *)
at_suspension_point_ordinary_only(c) == mode[c] = "cmd"
at_suspension_point(c) == Running(c) /\ pend[c] = <<>>

ServerStart(accepted) ==
    /\ db = <<>>
    /\ chan = <<>>
    /\ mode = [c \in Conns |-> IF c \in accepted THEN "cmd" ELSE "none"]
    /\ subs = [c \in Conns |-> <<>>]
    /\ pend = [c \in Conns |-> <<>>]
    /\ out = [c \in Conns |-> <<>>]
    /\ last = [c \in Conns |-> NoLast]
    /\ nreq = 0
    /\ shutdown = FALSE
    /\ registered = accepted
    /\ server = "running"

(* The ordinary loop reads frame f: Command::from_frame, then               *)
(* Command::apply; an error of either ends the connection. nreq is left to *)
(* the caller.                                                              *)
Applied(c, f, r, e) ==
    /\ last' = [last EXCEPT ![c] = LastRec(f, r.cmd, e.ret, "cmd")]
    /\ db' = e.db
    /\ chan' = e.chan
    /\ out' = [out EXCEPT ![c] = @ \o e.wrote]
    /\ mode' = [mode EXCEPT ![c] =
                   IF e.ret = "Sub" THEN "sub"
                   ELSE IF e.ret = "Ok" THEN "cmd" ELSE "closed"]
    /\ pend' = [pend EXCEPT ![c] = IF e.ret = "Sub" THEN r.cmd.channels ELSE @]
    /\ registered' =
           IF e.ret \in {"Ok", "Sub"} THEN registered ELSE registered \ {c}

Built(c, f, r) ==
    Applied(c, f, r,
            IF r.r = "Ok" THEN Command_apply(r.cmd)
            ELSE Effect("ParseErr", <<>>, db, chan))

HandleFrame(c, f) ==
    /\ mode[c] = "cmd"
    /\ Built(c, f, from_frame(f))
    /\ UNCHANGED <<subs, shutdown, server, codecVars>>

(* Subscribe::apply registers the next requested channel and acks it. *)
SubStep(c) ==
    /\ mode[c] = "sub"
    /\ pend[c] # <<>>
    /\ LET s == subscribe_to_channel(Head(pend[c]), subs[c])
       IN  /\ subs' = [subs EXCEPT ![c] = s.subs]
           /\ chan' = s.chan
           /\ out' = [out EXCEPT ![c] = Append(@, s.resp)]
    /\ pend' = [pend EXCEPT ![c] = Tail(@)]
    /\ UNCHANGED <<db, mode, last, nreq, shutdown, registered, server, codecVars>>

(* The select loop reads frame f. nreq is left to the caller. *)
HandledInLoop(c, f, r, h) ==
    /\ last' = [last EXCEPT ![c] = LastRec(f, r.cmd, h.ret, "sub")]
    /\ out' = [out EXCEPT ![c] = @ \o h.wrote]
    /\ subs' = [subs EXCEPT ![c] = IF h.ret # "Ok" THEN <<>> ELSE h.subs]
    /\ pend' = [pend EXCEPT ![c] = h.pend]
    /\ mode' = [mode EXCEPT ![c] =
                   IF h.ret # "Ok" THEN "closed"
                   ELSE IF h.exit THEN "cmd" ELSE "sub"]
    /\ registered' = IF h.ret # "Ok" THEN registered \ {c} ELSE registered

BuiltInLoop(c, f, r) ==
    HandledInLoop(c, f, r,
                  IF r.r = "Ok" THEN handle_command(r.cmd, subs[c])
                  ELSE Handled("ParseErr", <<>>, subs[c], <<>>, FALSE))

SubFrame(c, f) ==
    /\ mode[c] = "sub"
    /\ pend[c] = <<>>
    /\ BuiltInLoop(c, f, from_frame(f))
    /\ UNCHANGED <<db, chan, shutdown, server, codecVars>>

(* The select loop takes the next message of its i-th stream. *)
DeliverMsg(c, i) ==
    /\ mode[c] = "sub"
    /\ pend[c] = <<>>
    /\ i \in 1..Len(subs[c])
    /\ LET e == subs[c][i]
           log == chan[e.name]
       IN  /\ e.next < Len(log)
           /\ Len(log) - e.next <= Cap
           /\ out' = [out EXCEPT ![c] =
                         Append(@, make_message_frame(e.name, log[e.next + 1]))]
           /\ subs' = [subs EXCEPT ![c][i].next = @ + 1]
    /\ UNCHANGED <<db, chan, mode, pend, last, nreq, shutdown, registered,
                   server, codecVars>>

(* A stream that ends when its receiver lagged. *)
ObserveLag_ends_stream(c, i) ==
    /\ mode[c] = "sub"
    /\ pend[c] = <<>>
    /\ i \in 1..Len(subs[c])
    /\ Len(chan[subs[c][i].name]) - subs[c][i].next > Cap
    /\ subs' = [subs EXCEPT ![c] = swap_remove(@, i)]
    /\ UNCHANGED <<db, chan, mode, pend, out, last, nreq, shutdown, registered,
                   server, codecVars>>

(* The i-th stream finds that its receiver lagged: RecvError::Lagged is    *)
(* swallowed, the receiver resumes at the oldest message still kept.       *)
ObserveLag(c, i) ==
    /\ mode[c] = "sub"
    /\ pend[c] = <<>>
    /\ i \in 1..Len(subs[c])
    /\ LET e == subs[c][i]
           log == chan[e.name]
       IN  /\ Len(log) - e.next > Cap
           /\ subs' = [subs EXCEPT ![c][i] =
                          [e EXCEPT !.next = Len(log) - Cap,
                                    !.skipped = @ + (Len(log) - Cap - e.next),
                                    !.seen = Len(log)]]
    /\ UNCHANGED <<db, chan, mode, pend, out, last, nreq, shutdown, registered,
                   server, codecVars>>

(* The client closes its side: read_frame returns None, the loop ends. *)
ClientClose(c) ==
    /\ Running(c)
    /\ pend[c] = <<>>
    /\ mode' = [mode EXCEPT ![c] = "closed"]
    /\ subs' = [subs EXCEPT ![c] = <<>>]
    /\ registered' = registered \ {c}
    /\ UNCHANGED <<db, chan, pend, out, last, nreq, shutdown, server, codecVars>>

(* The server fires the shutdown signal and waits for completion. *)
FireShutdown ==
    /\ server = "running"
    /\ shutdown' = TRUE
    /\ server' = "draining"
    /\ UNCHANGED <<db, chan, mode, subs, pend, out, last, nreq, registered,
                   codecVars>>

(* A connection at a suspension point of its loop finds the signal fired. *)
ObserveShutdown(c) ==
    /\ shutdown
    /\ at_suspension_point(c)
    /\ mode' = [mode EXCEPT ![c] = "shutdown"]
    /\ subs' = [subs EXCEPT ![c] = <<>>]
    /\ registered' = registered \ {c}
    /\ UNCHANGED <<db, chan, pend, out, last, nreq, shutdown, server, codecVars>>

(* The wait for completion returns. *)
WaitDone ==
    /\ server = "draining"
    /\ registered = {}
    /\ server' = "done"
    /\ UNCHANGED <<db, chan, mode, subs, pend, out, last, nreq, shutdown,
                   registered, codecVars>>

(* The database purges an entry whose time to live has passed. *)
PurgeExpired ==
    /\ \E k \in DOMAIN db :
          /\ db[k].ttl
          /\ db' = Without(db, k)
    /\ UNCHANGED <<chan, mode, subs, pend, out, last, nreq, shutdown,
                   registered, server, codecVars>>

---------------------------------------------------------------------------
(* One connection in the ordinary loop, whose client sends a frame, reads  *)
(* what comes back, and sends the next.                                    *)
Known == {S_get, S_set, S_publish, S_subscribe, S_unsubscribe, S_ping}
Heads ==
    {Bulk(n) : n \in Known} \cup {Bulk(to_uppercase(n)) : n \in Known}
        \cup {Simple(Capitalized(n)) : n \in Known}
        \cup {Bulk(S_frob), Simple(to_uppercase(S_frob)), Int64(1)}
ArgElems == {Bulk(S_k), Int64(1)}
ExpireArgs ==
    {<<Bulk(S_k), Bulk(S_v)>>,
     <<Bulk(S_k), Bulk(S_v), Bulk(S_EX), Int64(1)>>,
     <<Bulk(S_k), Bulk(S_v), Simple(to_lowercase(S_PX)), Bulk(<<49>>)>>,
     <<Bulk(S_k), Bulk(S_v), Bulk(S_EX)>>}
ArgSeqs == SeqsUpTo(ArgElems, MaxArgs) \cup ExpireArgs
ClientFrames ==
    {Array(<<h>> \o a) : h \in Heads, a \in ArgSeqs}
        \cup {Array(<<>>), Simple(S_get), Bulk(S_get), Null}

InitCmd ==
    /\ ServerStart({"c1"})
    /\ inp = [kind |-> "none", frame |-> NoFrame, start |-> 0, wire |-> <<>>,
              need |-> 0, debug |-> FALSE]
    /\ got = 0
    /\ chk = NoRes
    /\ prs = NoFrameRes
    /\ ln = NoLineRes

SyncSend(c, f) ==
    /\ last[c].frame = NoFrame
    /\ nreq' = nreq
    /\ (HandleFrame(c, f) \/ SubFrame(c, f))

ClientTake(c) ==
    /\ last[c].frame # NoFrame
    /\ pend[c] = <<>>
    /\ out' = [out EXCEPT ![c] = <<>>]
    /\ last' = [last EXCEPT ![c] = NoLast]
    /\ UNCHANGED <<db, chan, mode, subs, pend, nreq, shutdown, registered,
                   server, codecVars>>

NextCmd ==
    \/ \E f \in ClientFrames : SyncSend("c1", f)
    \/ ClientTake("c1")
    \/ SubStep("c1")
    \/ ClientClose("c1")
    \/ PurgeExpired

SpecCmd == InitCmd /\ [][NextCmd]_vars

---------------------------------------------------------------------------
(* Several connections that subscribe, unsubscribe and publish.            *)
Cmd(name, args) ==
    Array(<<Bulk(name)>> \o [i \in 1..Len(args) |-> Bulk(args[i])])
PubSubFrames ==
    {Cmd(S_subscribe, <<S_a>>), Cmd(S_subscribe, <<S_a, S_b>>),
     Cmd(S_unsubscribe, <<>>), Cmd(S_unsubscribe, <<S_a>>),
     Cmd(S_publish, <<S_a, S_m>>), Cmd(S_ping, <<>>)}

InitPubSub ==
    /\ ServerStart(Conns)
    /\ inp = [kind |-> "none", frame |-> NoFrame, start |-> 0, wire |-> <<>>,
              need |-> 0, debug |-> FALSE]
    /\ got = 0
    /\ chk = NoRes
    /\ prs = NoFrameRes
    /\ ln = NoLineRes

Request(c, f) ==
    /\ nreq < MaxReq
    /\ nreq' = nreq + 1
    /\ (HandleFrame(c, f) \/ SubFrame(c, f))

NextPubSub ==
    \/ \E c \in Conns, f \in PubSubFrames : Request(c, f)
    \/ \E c \in Conns : SubStep(c)
    \/ \E c \in Conns : \E i \in 1..Len(subs[c]) : DeliverMsg(c, i)
    \/ \E c \in Conns : \E i \in 1..Len(subs[c]) : ObserveLag(c, i)
    \/ \E c \in Conns : ClientClose(c)

SpecPubSub == InitPubSub /\ [][NextPubSub]_vars

(* Two connections, one slow to read what it subscribed to. *)
LagFrames ==
    {Cmd(S_subscribe, <<S_a>>), Cmd(S_publish, <<S_a, S_m>>),
     Cmd(S_publish, <<S_a, S_k>>)}

InitLag ==
    /\ ServerStart({"c1", "c2"})
    /\ inp = [kind |-> "none", frame |-> NoFrame, start |-> 0, wire |-> <<>>,
              need |-> 0, debug |-> FALSE]
    /\ got = 0
    /\ chk = NoRes
    /\ prs = NoFrameRes
    /\ ln = NoLineRes

RequestLag(c, f) ==
    /\ nreq < MaxLagReq
    /\ nreq' = nreq + 1
    /\ (HandleFrame(c, f) \/ SubFrame(c, f))

NextLag ==
    \/ \E c \in Conns, f \in LagFrames : RequestLag(c, f)
    \/ \E c \in Conns : SubStep(c)
    \/ \E c \in Conns : \E i \in 1..Len(subs[c]) : DeliverMsg(c, i)
    \/ \E c \in Conns : \E i \in 1..Len(subs[c]) : ObserveLag(c, i)

SpecLag == InitLag /\ [][NextLag]_vars

(* Two connections and a server that shuts down. *)
InitDrain ==
    /\ ServerStart({"c1", "c2"})
    /\ inp = [kind |-> "none", frame |-> NoFrame, start |-> 0, wire |-> <<>>,
              need |-> 0, debug |-> FALSE]
    /\ got = 0
    /\ chk = NoRes
    /\ prs = NoFrameRes
    /\ ln = NoLineRes

NextDrain ==
    \/ NextPubSub
    \/ \E c \in Conns : ObserveShutdown(c)
    \/ FireShutdown
    \/ WaitDone

SpecDrain == InitDrain /\ [][NextDrain]_vars

(* select! keeps polling the shutdown branch, the registration loop runs   *)
(* to its end, and the server keeps waiting.                               *)
FairDrain ==
    /\ SpecDrain
    /\ \A c \in Conns : WF_vars(SubStep(c)) /\ WF_vars(ObserveShutdown(c))
    /\ WF_vars(WaitDone)

---------------------------------------------------------------------------
(* The codec driven over a read buffer that fills byte by byte.            *)
InitCodec ==
    /\ inp \in Inputs
    /\ got = inp.start
    /\ chk = NoRes
    /\ prs = NoFrameRes
    /\ ln = NoLineRes
    /\ ServerStart({})

(* The socket delivers one more byte; earlier outcomes are stale. *)
Recv ==
    /\ got < Len(inp.wire)
    /\ got' = got + 1
    /\ chk' = NoRes
    /\ prs' = NoFrameRes
    /\ ln' = NoLineRes
    /\ UNCHANGED <<inp, serverVars>>

(* Frame::check on a cursor over the buffer, placed at the start offset. *)
DoCheck ==
    /\ chk' = check(buffer, inp.start)
    /\ UNCHANGED <<inp, got, prs, ln, serverVars>>

(* Frame::parse on a cursor over the buffer, placed at the start offset. *)
DoParse ==
    /\ prs' = parse(buffer, inp.start)
    /\ UNCHANGED <<inp, got, chk, ln, serverVars>>

(* get_line on a cursor over the buffer, placed at the start offset or     *)
(* just past the type byte, where Frame::check calls it.                   *)
DoGetLine ==
    /\ \E at \in {inp.start, inp.start + 1} :
          /\ at <= got
          /\ ln' = LineRes(get_line(buffer, at), at)
    /\ UNCHANGED <<inp, got, chk, prs, serverVars>>

NextCodec == Recv \/ DoCheck \/ DoParse \/ DoGetLine

SpecCodec == InitCodec /\ [][NextCodec]_vars

---------------------------------------------------------------------------
(* Claims about the frame codec, checked under SpecCodec.                  *)

FrameArrived == inp.kind = "valid" /\ got >= inp.need
StrictPrefix == inp.kind = "valid" /\ got < inp.need
BadByteArrived == inp.kind \in {"badtop", "badnested"} /\ got >= inp.need

(* C1: Frame::check on any strict prefix of a valid encoded frame returns  *)
(* Incomplete: never Ok, never a protocol error, never a panic.            *)
C1_PrefixIsIncomplete ==
    (StrictPrefix /\ chk.r # "None") => chk.r = "Incomplete"

(* C2: Frame::check on a valid encoded frame at the cursor, whatever       *)
(* follows it, returns Ok and leaves the cursor just past the frame.       *)
C2_CheckStopsAfterFrame ==
    (FrameArrived /\ chk.r # "None") => chk = Res("Ok", inp.need)

(* C3: round trip: Frame::parse on the encoding of a frame returns a frame *)
(* equal to the original.                                                  *)
C3_RoundTrip ==
    (FrameArrived /\ prs.r # "None") => (prs.r = "Ok" /\ prs.f = inp.frame)

(* C10 as claimed: on a byte that is no type byte, at the top level or     *)
(* where an array element starts, Frame::check returns a protocol error    *)
(* and neither Frame::check nor Frame::parse panics.                       *)
C10_BadTypeByteNoPanic ==
    BadByteArrived =>
        /\ chk.r # "None" => chk.r = "Error"
        /\ prs.r # "Panic"

(* C10 amended: on such a byte Frame::check returns a protocol error and   *)
(* does not panic; Frame::parse run on such a byte at the top level panics *)
(* (unimplemented!), and on an array holding such an element it returns a  *)
(* protocol error.                                                         *)
C10_BadTypeByte ==
    BadByteArrived =>
        /\ chk.r # "None" => chk.r = "Error"
        /\ prs.r # "None" =>
               prs.r = (IF inp.kind = "badtop" THEN "Panic" ELSE "Error")

C10_Witness ==
    /\ BadByteArrived
    /\ inp.kind = "badtop"
    /\ chk.r = "Error"
    /\ prs.r = "Panic"

---------------------------------------------------------------------------
(* Claims about the command layer, checked under SpecCmd.                  *)
IsText(f) == f.t \in {"Simple", "Bulk"}
TextOf(f) == IF f.t = "Simple" THEN f.s ELSE f.b
NamedRequest(f) == f.t = "Array" /\ Len(f.v) >= 1 /\ IsText(f.v[1])
NameOf(f) == to_lowercase(TextOf(f.v[1]))

(* The ordinary loop of c has just handled a frame. *)
Handles(c) ==
    /\ last[c].frame = NoFrame
    /\ last'[c].frame # NoFrame
    /\ last'[c].ctx = "cmd"

(* A request UNSUBSCRIBE [channel ...]: the name in any letter case,       *)
(* followed by strings only.                                               *)
UnsubscribeRequest(f) ==
    /\ NamedRequest(f)
    /\ NameOf(f) = S_unsubscribe
    /\ \A i \in 2..Len(f.v) : IsText(f.v[i])

(* C4 as stated: whatever frame a client sends to a connection in the      *)
(* ordinary loop, from_frame followed by Command::apply never reaches the  *)
(* Unsubscribe arm and never returns its error.                            *)
C4_UnsubscribeErrorUnreachable ==
    \A c \in Conns :
        last[c].ctx = "cmd" =>
            last[c].cmd.c # "Unsubscribe" /\ last[c].ret # "UnsubErr"

(* C4 amended: in the ordinary loop the Unsubscribe arm is reached, and    *)
(* its error returned, exactly for the frames that are an UNSUBSCRIBE      *)
(* request.                                                                *)
C4_UnsubscribeErrorFromClient ==
    \A c \in Conns :
        last[c].ctx = "cmd" =>
            /\ last[c].ret = "UnsubErr" <=> UnsubscribeRequest(last[c].frame)
            /\ last[c].ret = "UnsubErr" <=> last[c].cmd.c = "Unsubscribe"

C4_Witness ==
    \E c \in Conns :
        /\ last[c].ctx = "cmd"
        /\ last[c].ret = "UnsubErr"
        /\ Len(last[c].frame.v) = 2
        /\ mode[c] = "closed"

(* C5: an array frame whose first element is a name other than get, set,   *)
(* publish, subscribe, unsubscribe and ping in any letter case, whatever   *)
(* follows it, becomes Unknown with the lower-cased name; applying it      *)
(* writes the single frame Error("err unknown command '<name>'"), returns  *)
(* success, and the connection stays open.                                 *)
C5_UnknownCommand ==
    [][\A c \in Conns :
          Handles(c) /\ NamedRequest(last'[c].frame)
                     /\ NameOf(last'[c].frame) \notin Known
          => /\ last'[c].cmd = Unknown(NameOf(last'[c].frame))
             /\ last'[c].ret = "Ok"
             /\ out'[c] = out[c] \o
                    <<ErrorF(S_err_unknown \o NameOf(last'[c].frame) \o S_quote)>>
             /\ mode'[c] = "cmd"
             /\ c \in registered']_vars

C5_Witness ==
    \E c \in Conns :
        /\ last[c].ctx = "cmd"
        /\ last[c].cmd = Unknown(S_frob)
        /\ last[c].frame.v[1] = Simple(to_uppercase(S_frob))
        /\ Len(last[c].frame.v) = 3
        /\ out[c] = <<ErrorF(S_err_unknown \o S_frob \o S_quote)>>
        /\ mode[c] = "cmd"

(* C6 as stated: Command::apply on a command other than Subscribe writes   *)
(* exactly one reply frame, for Get, Set, Publish, Ping, Unknown and       *)
(* Unsubscribe.                                                            *)
C6_OneReplyPerApply ==
    [][\A c \in Conns :
          Handles(c) /\ last'[c].cmd.c \notin {"None", "Subscribe"}
          => Len(out'[c]) = Len(out[c]) + 1]_vars

(* C6 amended: Command::apply writes exactly one reply frame and returns   *)
(* success for Get, Set, Publish, Ping and Unknown; for Unsubscribe it     *)
(* writes nothing and returns the error.                                   *)
C6_OneReplyExceptUnsubscribe ==
    [][\A c \in Conns :
          Handles(c)
          => /\ last'[c].cmd.c \in {"Get", "Set", "Publish", "Ping", "Unknown"}
                => /\ Len(out'[c]) = Len(out[c]) + 1
                   /\ SubSeq(out'[c], 1, Len(out[c])) = out[c]
                   /\ last'[c].ret = "Ok"
             /\ last'[c].cmd.c = "Unsubscribe"
                => /\ out'[c] = out[c]
                   /\ last'[c].ret = "UnsubErr"]_vars

C6_Witness ==
    \E c \in Conns :
        /\ last[c].ctx = "cmd"
        /\ last[c].cmd = Get(S_k)
        /\ out[c] = <<Bulk(S_v)>>

---------------------------------------------------------------------------
(* Claims about the subscription engine, checked under SpecPubSub.         *)

(* Connection c has just handled a request. *)
Acted(c) ==
    /\ nreq' = nreq + 1
    /\ <<out[c], mode[c], pend[c], subs[c]>> # <<out'[c], mode'[c], pend'[c], subs'[c]>>

Wrote(c) == SubSeq(out'[c], Len(out[c]) + 1, Len(out'[c]))

IsAck(f, kind, ch) ==
    /\ f.t = "Array"
    /\ Len(f.v) = 3
    /\ f.v[1] = Bulk(kind)
    /\ f.v[2] = Bulk(ch)

(* The place in what was written to c of the last ack of SUBSCRIBE ch,     *)
(* 0 when there is none.                                                   *)
LastSubAck(c, ch) ==
    LET at == {i \in 1..Len(out[c]) : IsAck(out[c][i], S_subscribe, ch)}
    IN  IF at = {} THEN 0 ELSE CHOOSE i \in at : \A j \in at : j <= i

(* c completed SUBSCRIBE ch: the ack was written, no ack of an UNSUBSCRIBE *)
(* ch after it, and c is still in the subscribed loop.                     *)
Subscribed(c, ch) ==
    /\ mode[c] = "sub"
    /\ LastSubAck(c, ch) > 0
    /\ \A i \in (LastSubAck(c, ch) + 1)..Len(out[c]) :
           ~IsAck(out[c][i], S_unsubscribe, ch)

IsMessageOn(f, ch) ==
    /\ f.t = "Array"
    /\ Len(f.v) >= 2
    /\ f.v[1] = Bulk(S_message)
    /\ f.v[2] = Bulk(ch)

(* The message frames of channel ch written to c since its last ack of     *)
(* SUBSCRIBE ch.                                                           *)
MessagesSince(c, ch) ==
    LET since == SubSeq(out[c], LastSubAck(c, ch) + 1, Len(out[c]))
        on(f) == IsMessageOn(f, ch)
    IN  SelectSeq(since, on)

(* A PUBLISH ch m handled in the ordinary loop of c. *)
Publishes(c) ==
    /\ Acted(c)
    /\ last'[c].ctx = "cmd"
    /\ last'[c].cmd.c = "Publish"
    /\ mode[c] = "cmd"

(* C7: with N connections that completed SUBSCRIBE ch, PUBLISH ch m from   *)
(* another connection is answered Integer N, and every subscriber that     *)
(* does not lag is sent, once each and in order, the frame                 *)
(* ["message", ch, m] of every message published since it subscribed: the  *)
(* frames written are those of the messages its receiver has taken, the    *)
(* others are still queued for it.                                         *)
C7_FanOut ==
    /\ [][\A c \in Conns :
            Publishes(c) =>
                LET ch == last'[c].cmd.channel
                    N == Cardinality({s \in Conns : Subscribed(s, ch)})
                IN  /\ Wrote(c) = <<Int64(N)>>
                    /\ N > 0 => chan'[ch] = Append(chan[ch], last'[c].cmd.message)
                    /\ \A s \in Conns : Subscribed(s, ch) =>
                           /\ HasKey(subs'[s], ch)
                           /\ out'[s] = out[s]]_vars
    /\ [](\A s \in Conns : \A i \in 1..Len(subs[s]) :
            LET e == subs[s][i]
            IN  /\ Subscribed(s, e.name)
                /\ e.next <= Len(chan[e.name])
                /\ e.skipped = 0 =>
                       MessagesSince(s, e.name) =
                           [j \in 1..(e.next - e.base) |->
                               Array(<<Bulk(S_message), Bulk(e.name),
                                       Bulk(chan[e.name][e.base + j])>>)])

C7_Witness ==
    \E p \in Conns :
        /\ out[p] = <<Int64(2)>>
        /\ \A s \in Conns \ {p} :
               /\ Len(out[s]) = 2
               /\ out[s][2] = Array(<<Bulk(S_message), Bulk(S_a), Bulk(S_m)>>)
               /\ Subscribed(s, S_a)

(* C8: a connection in the subscribed loop with k >= 1 channels that reads *)
(* UNSUBSCRIBE with an empty list is sent exactly k unsubscribe acks, one  *)
(* per channel it had, with remaining counts k-1 down to 0; then its       *)
(* subscription set is empty and the subscribed loop has ended.            *)
C8_UnsubscribeAll ==
    [][\A c \in Conns :
          /\ Acted(c)
          /\ mode[c] = "sub"
          /\ Len(subs[c]) >= 1
          /\ last'[c].cmd = Unsubscribe(<<>>)
          /\ last'[c].ctx = "sub"
          => LET k == Len(subs[c])
                 acks == Wrote(c)
             IN  /\ Len(acks) = k
                 /\ \A i \in 1..k :
                        /\ acks[i].t = "Array"
                        /\ Len(acks[i].v) = 3
                        /\ acks[i].v[1] = Bulk(S_unsubscribe)
                        /\ acks[i].v[3] = Int64(k - i)
                 /\ {acks[i].v[2] : i \in 1..k}
                        = {Bulk(subs[c][i].name) : i \in 1..k}
                 /\ SubSeq(out'[c], 1, Len(out[c])) = out[c]
                 /\ subs'[c] = <<>>
                 /\ mode'[c] = "cmd"]_vars

C8_Witness ==
    \E c \in Conns :
        /\ last[c].cmd = Unsubscribe(<<>>)
        /\ last[c].ctx = "sub"
        /\ Len(out[c]) = 4
        /\ out[c][3].v[1] = Bulk(S_unsubscribe)
        /\ out[c][3].v[3] = Int64(1)
        /\ out[c][4].v[1] = Bulk(S_unsubscribe)
        /\ out[c][4].v[3] = Int64(0)
        /\ subs[c] = <<>>
        /\ mode[c] = "cmd"

---------------------------------------------------------------------------
(* Claims about shutdown, checked under FairDrain.                         *)

(* C9: once the shutdown signal is fired, every connection, those in the   *)
(* subscribed loop included, eventually leaves its loop; a connection that *)
(* leaves on the signal reads no further command in that step and has no   *)
(* reply left to write; and the wait for completion returns only when      *)
(* every registered connection has deregistered.                           *)
C9_ShutdownDrain ==
    /\ shutdown ~> (\A c \in Conns : ~Running(c))
    /\ [][\A c \in Conns :
            mode[c] # "shutdown" /\ mode'[c] = "shutdown"
            => /\ shutdown
               /\ pend[c] = <<>>
               /\ out'[c] = out[c]
               /\ last'[c] = last[c]
               /\ nreq' = nreq
               /\ subs'[c] = <<>>
               /\ c \notin registered']_vars
    /\ [][\A c \in Conns :
            mode[c] = "shutdown" => mode'[c] = "shutdown" /\ out'[c] = out[c]]_vars
    /\ [](server = "done" => registered = {} /\ \A c \in Conns : ~Running(c))

C9_Witness ==
    /\ server = "done"
    /\ \A c \in {"c1", "c2"} :
           /\ mode[c] = "shutdown"
           /\ last[c].ret = "Sub"
           /\ out[c] # <<>>

---------------------------------------------------------------------------
(* Further claims about the command layer, checked under SpecCmd.          *)

(* C11: GET key replies Bulk(v) exactly when the database maps key to v    *)
(* and Null exactly when the key is absent, and leaves the database as it  *)
(* was.                                                                    *)
C11_Get ==
    [][\A c \in Conns :
          Handles(c) /\ last'[c].cmd.c = "Get"
          => LET key == last'[c].cmd.key
             IN  /\ key \in DOMAIN db => Wrote(c) = <<Bulk(db[key].v)>>
                 /\ key \notin DOMAIN db => Wrote(c) = <<Null>>
                 /\ SubSeq(out'[c], 1, Len(out[c])) = out[c]
                 /\ db' = db
                 /\ last'[c].ret = "Ok"]_vars

C11_Witness ==
    \E c \in Conns :
        /\ last[c].cmd = Get(S_k)
        /\ S_k \in DOMAIN db
        /\ db[S_k].v = S_v
        /\ out[c] = <<Bulk(S_v)>>

(* C12: from_frame on a GET frame succeeds only when exactly one key       *)
(* element follows the name; with no key, or with any element after the    *)
(* key, it fails and no Command is produced.                               *)
C12_GetArity ==
    \A c \in Conns :
        LET f == last[c].frame
        IN  last[c].ctx = "cmd" /\ NamedRequest(f) /\ NameOf(f) = S_get
            => /\ last[c].cmd.c = "Get" <=> Len(f.v) = 2 /\ IsText(f.v[2])
               /\ last[c].cmd.c = "Get" => last[c].cmd = Get(TextOf(f.v[2]))
               /\ last[c].cmd.c # "Get"
                  => last[c].cmd = NoCmd /\ last[c].ret = "ParseErr"

C12_Witness ==
    \E c \in Conns :
        /\ last[c].ctx = "cmd"
        /\ NamedRequest(last[c].frame)
        /\ NameOf(last[c].frame) = S_get
        /\ Len(last[c].frame.v) = 3
        /\ IsText(last[c].frame.v[2])
        /\ last[c].ret = "ParseErr"
        /\ out[c] = <<>>

(* The frames that differ from f only in the letter case of the name. *)
WithName(f, n) ==
    Array(<<IF f.v[1].t = "Simple" THEN Simple(n) ELSE Bulk(n)>> \o Tail(f.v))
CaseVariants(f) ==
    {WithName(f, n) :
        n \in {to_uppercase(TextOf(f.v[1])), Capitalized(TextOf(f.v[1])),
               [i \in 1..Len(TextOf(f.v[1])) |->
                   IF TextOf(f.v[1])[i] >= 65 /\ TextOf(f.v[1])[i] <= 90
                   THEN TextOf(f.v[1])[i] + 32 ELSE TextOf(f.v[1])[i]]}}

(* C13: two array frames that differ only in the letter case of their      *)
(* first element give the same outcome of from_frame, the same command or  *)
(* a failure in both, and an Unknown command holds the lower-cased name.   *)
C13_CaseInsensitive ==
    \A c \in Conns :
        LET f == last[c].frame
        IN  NamedRequest(f)
            => /\ \A g \in CaseVariants(f) :
                      /\ from_frame(g).cmd = last[c].cmd
                      /\ from_frame(g).r = from_frame(f).r
               /\ last[c].cmd.c = "Unknown"
                  => \A i \in 1..Len(last[c].cmd.cmd_name) :
                         ~(last[c].cmd.cmd_name[i] >= 65
                             /\ last[c].cmd.cmd_name[i] <= 90)

C13_Witness ==
    \E c \in Conns :
        /\ last[c].frame = Array(<<Bulk(to_uppercase(S_get)), Bulk(S_k)>>)
        /\ last[c].cmd = Get(S_k)
        /\ from_frame(Array(<<Bulk(S_get), Bulk(S_k)>>)).cmd = Get(S_k)

(* C19: Subscribe::parse_frames fails when no channel follows the name;    *)
(* given n >= 1 string elements it returns a Subscribe holding those n     *)
(* names in request order with the parser fully consumed; an element that  *)
(* is not a string makes the parse fail.                                   *)
C19_SubscribeParsing ==
    \A c \in Conns :
        LET f == last[c].frame
            n == Len(f.v) - 1
        IN  NamedRequest(f) /\ NameOf(f) = S_subscribe
            => /\ n >= 1 /\ (\A i \in 2..Len(f.v) : IsText(f.v[i]))
                  => /\ last[c].cmd =
                            Subscribe([i \in 1..n |-> TextOf(f.v[i + 1])])
                     /\ Subscribe_parse_frames(Tail(f.v)).r = "Ok"
                     /\ Subscribe_parse_frames(Tail(f.v)).parts = <<>>
               /\ n = 0 \/ (\E i \in 2..Len(f.v) : ~IsText(f.v[i]))
                  => /\ last[c].cmd = NoCmd
                     /\ Subscribe_parse_frames(Tail(f.v)).r = "Err"

C19_Witness ==
    \E c \in Conns :
        /\ NamedRequest(last[c].frame)
        /\ NameOf(last[c].frame) = S_subscribe
        /\ Len(last[c].frame.v) = 3
        /\ IsText(last[c].frame.v[2])
        /\ ~IsText(last[c].frame.v[3])
        /\ last[c].cmd = NoCmd
        /\ last[c].ret = "ParseErr"

---------------------------------------------------------------------------
(* Further claims about the frame codec, checked under SpecCodec.          *)

(* C14: wherever Frame::check returns Ok, Frame::parse from the same       *)
(* position on the same buffer returns a frame, with no error, no          *)
(* Incomplete and no panic, and leaves the cursor where check left it; the *)
(* null bulk form that starts with "$-" included.                          *)
C14_CheckParseAgree ==
    chk.r = "Ok" /\ prs.r # "None" => prs.r = "Ok" /\ prs.pos = chk.pos

(* The offsets at or after `at` where a CRLF stands in the buffer. *)
CRLFsFrom(at) ==
    {i \in at..(got - 2) : buffer[i + 1] = CR /\ buffer[i + 2] = LF}

(* C15: get_line returns the bytes from the cursor up to, not including,   *)
(* the first CRLF at or after it, and moves the cursor just past that      *)
(* CRLF; with no CRLF in the remaining bytes it returns Incomplete and     *)
(* leaves the cursor where it was; it never indexes past the end.          *)
C15_GetLine ==
    ln.r # "None" =>
        IF CRLFsFrom(ln.at) = {}
        THEN ln.r = "Incomplete" /\ ln.pos = ln.at
        ELSE LET i == CHOOSE j \in CRLFsFrom(ln.at) :
                          \A k \in CRLFsFrom(ln.at) : j <= k
             IN  /\ ln.r = "Ok"
                 /\ ln.v = SubSeq(buffer, ln.at + 1, i)
                 /\ ln.pos = i + 2

---------------------------------------------------------------------------
(* Further claims about the subscription engine, checked under SpecPubSub. *)

(* Subscribe::apply registers and acks the next requested channel of c. *)
AckStep(c) ==
    /\ pend[c] # <<>>
    /\ pend'[c] = Tail(pend[c])
    /\ nreq' = nreq

IsAnyAck(f) ==
    /\ f.t = "Array"
    /\ Len(f.v) = 3
    /\ f.v[1] \in {Bulk(S_subscribe), Bulk(S_unsubscribe)}
    /\ f.v[3].t = "Int"

(* The count in the last subscribe or unsubscribe ack written to c: the    *)
(* number of subscriptions the client was last told it holds.              *)
PrevCount(c) ==
    LET at == {i \in 1..Len(out[c]) : IsAnyAck(out[c][i])}
    IN  IF at = {} THEN 0
        ELSE out[c][CHOOSE i \in at : \A j \in at : j <= i].v[3].n

SubAck(ch, n) == Array(<<Bulk(S_subscribe), Bulk(ch), Int64(n)>>)

Distinct(names) ==
    \A i, j \in 1..Len(names) : i # j => names[i] # names[j]

(* A SUBSCRIBE was read: its channels wait to be registered in request     *)
(* order, and nothing is written yet.                                      *)
SubscribeRead(c) ==
    /\ Acted(c)
    /\ last'[c].cmd.c = "Subscribe"
    /\ last'[c].ret \in {"Sub", "Ok"}

(* C16 as stated: SUBSCRIBE c1 ... ck with distinct channels on a          *)
(* connection holding m subscriptions writes k acks in request order with  *)
(* counts m+1, ..., m+k: each ack counts one more than the ack before it.  *)
C16_AckCountsGrowByOne ==
    [][\A c \in Conns :
          AckStep(c) /\ Distinct(last[c].cmd.channels)
          => Wrote(c) = <<SubAck(Head(pend[c]), PrevCount(c) + 1)>>]_vars

(* C16 amended: the ack of subscribe_to_channel(ch) is ["subscribe", ch,   *)
(* n] with n the size of the subscription set once ch is registered; acks  *)
(* come in request order; n is one more than the count before when ch was  *)
(* not subscribed and equal to it when ch was.                             *)
C16_AckCarriesRunningCount ==
    /\ [][\A c \in Conns :
            AckStep(c)
            => /\ Wrote(c) = <<SubAck(Head(pend[c]), Len(subs'[c]))>>
               /\ SubSeq(out'[c], 1, Len(out[c])) = out[c]
               /\ HasKey(subs'[c], Head(pend[c]))
               /\ PrevCount(c) = Len(subs[c])
               /\ Len(subs'[c]) =
                      PrevCount(c)
                          + (IF Subscribed(c, Head(pend[c])) THEN 0 ELSE 1)]_vars
    /\ [][\A c \in Conns :
            SubscribeRead(c)
            => /\ pend'[c] = last'[c].cmd.channels
               /\ out'[c] = out[c]]_vars

C16_Witness ==
    \E c \in Conns :
        /\ out[c] = <<SubAck(S_a, 1), SubAck(S_a, 1), SubAck(S_b, 2)>>
        /\ pend[c] = <<>>
        /\ mode[c] = "sub"

(* C18: SUBSCRIBE to a channel the connection already holds keeps a single *)
(* receiver for that name, is acked with the count the connection had      *)
(* before, and a publish on that channel afterwards gives this connection  *)
(* one message frame, not two.                                             *)
C18_ResubscribeIdempotent ==
    /\ [][\A c \in Conns :
            AckStep(c) /\ HasKey(subs[c], Head(pend[c]))
            => /\ Len(subs'[c]) = Len(subs[c])
               /\ {subs'[c][i].name : i \in 1..Len(subs'[c])}
                      = {subs[c][i].name : i \in 1..Len(subs[c])}
               /\ Wrote(c) = <<SubAck(Head(pend[c]), Len(subs[c]))>>]_vars
    /\ [](\A c \in Conns : \A i, j \in 1..Len(subs[c]) :
              i # j => subs[c][i].name # subs[c][j].name)
    /\ [](\A c \in Conns : \A i \in 1..Len(subs[c]) :
              Len(MessagesSince(c, subs[c][i].name))
                  <= Len(chan[subs[c][i].name]) - subs[c][i].base)

C18_Witness ==
    \E c \in Conns : \E p \in Conns \ {c} :
        /\ out[c] = <<SubAck(S_a, 1), SubAck(S_a, 1),
                      Array(<<Bulk(S_message), Bulk(S_a), Bulk(S_m)>>)>>
        /\ Len(subs[c]) = 1
        /\ out[p] = <<Int64(1)>>

---------------------------------------------------------------------------
(* Claims about receiver lag, checked under SpecLag.                       *)

(* The i-th stream of c finds that its receiver lagged. *)
LagStep(c, i) ==
    /\ Len(subs'[c]) = Len(subs[c])
    /\ subs'[c][i].skipped > subs[c][i].skipped

(* The select loop of c writes a message of one of its streams. *)
DeliverStep(c) ==
    /\ nreq' = nreq
    /\ pend'[c] = pend[c]
    /\ Len(out'[c]) = Len(out[c]) + 1

MessageFrame(ch, m) == Array(<<Bulk(S_message), Bulk(ch), Bulk(m)>>)

=============================================================================
